---- MODULE Spec2Model ----
(***************************************************************************)
(* Model of flashlight/config/config.go: the first-run bootstrap race, the *)
(* conditional cloud-config fetch with its process-wide ETag cache, the    *)
(* poll tick, and the merge (updateFrom) followed by ApplyDefaults.        *)
(***************************************************************************)
EXTENDS Integers, Sequences, FiniteSets, TLC

(***************************************************************************)
(* Bounds of the model.                                                    *)
(***************************************************************************)
\* number of chained servers in the packaged bootstrap settings
NChained == 1
\* number of document versions the cloud server publishes
MaxVersion == 2

(***************************************************************************)
(* Strings that are compared or sorted are sequences of byte values, so    *)
(* that sort.Strings is modelled by what it does.                          *)
(***************************************************************************)
sA == <<65>>
sa == <<97>>
sab == <<97, 98>>
sb == <<98>>

RECURSIVE StrLess(_, _)
\* Go's s < t on strings: byte-wise lexicographic, a proper prefix is smaller.
StrLess(s, t) ==
  IF t = <<>> THEN FALSE
  ELSE IF s = <<>> THEN TRUE
  ELSE IF Head(s) # Head(t) THEN Head(s) < Head(t)
  ELSE StrLess(Tail(s), Tail(t))

RECURSIVE InsertSorted(_, _)
InsertSorted(x, s) ==
  IF s = <<>> THEN <<x>>
  ELSE IF StrLess(x, Head(s)) THEN <<x>> \o s
  ELSE <<Head(s)>> \o InsertSorted(x, Tail(s))

RECURSIVE SortStrings(_)
\* sort.Strings: the ascending permutation of s (duplicates kept).
SortStrings(s) ==
  IF s = <<>> THEN <<>> ELSE InsertSorted(Head(s), SortStrings(Tail(s)))

RECURSIVE MapKeys(_)
\* `for domain := range wlDomains { append }`: the keys of the map in some
\* iteration order (the order is fixed afterwards by the sort).
MapKeys(S) ==
  IF S = {} THEN <<>>
  ELSE LET k == CHOOSE x \in S : TRUE IN <<k>> \o MapKeys(S \ {k})

Elems(s) == {s[i] : i \in DOMAIN s}

(***************************************************************************)
(* Configuration values.                                                   *)
(***************************************************************************)
defaultCloudConfigUrl == "u1"
otherCloudConfigUrl == "u2"
URLs == {defaultCloudConfigUrl, otherCloudConfigUrl}

cloudflare == "cloudflare"
cloudflareMasquerades == "cfMasq"
defaultProxiedSites == <<sa, sb>>
defaultTrustedCAs == <<"caDefault">>

\* the empty map / empty slice
EmptyMap == <<>>

\* a *client.ClientConfig that is nil
NilClient == [isNil |-> TRUE]

\* the collections of a ClientConfig; each of them can be nil
ClientCollections == {"FrontedServers", "ChainedServers", "MasqueradeSets"}

\* a ClientConfig whose collections are all allocated; nilFields names the
\* collections that are nil (a nil slice or map is also an empty one)
ClientConfig(fs, cs, ms) ==
  [isNil |-> FALSE, FrontedServers |-> fs, ChainedServers |-> cs,
   MasqueradeSets |-> ms, nilFields |-> {}]

\* &client.ClientConfig{}
ZeroClient ==
  [isNil |-> FALSE, FrontedServers |-> <<>>, ChainedServers |-> <<>>,
   MasqueradeSets |-> <<>>, nilFields |-> ClientCollections]

\* a *bool: nil, or pointing at a value
NilBool == "nil"
BoolPtr(b) == IF b THEN "true" ELSE "false"

\* a *statreporter.Config: nil, or holding the statshub address
NilStats == [isNil |-> TRUE, StatshubAddr |-> ""]

FrontedServerInfo(host, qos, weight, redial) ==
  [Host |-> host, QOS |-> qos, Weight |-> weight, RedialAttempts |-> redial]

\* type Config: the fields the merge, the defaults and the poll read or write
\* (the fields not passed in have Go's zero value)
Config(role, url, addr, client, cloud, cas) ==
  [Role |-> role, CloudConfig |-> url, Addr |-> addr, Client |-> client,
   ProxiedSites |-> [isNil |-> FALSE, Cloud |-> cloud], TrustedCAs |-> cas,
   InstanceId |-> "", UIAddr |-> "", AutoReport |-> NilBool,
   AutoLaunch |-> NilBool, Stats |-> NilStats]

\* a *proxiedsites.Config that is nil
NilProxiedSites == [isNil |-> TRUE, Cloud |-> <<>>]

\* EmptyConfig: &Config{}
EmptyConfig ==
  [Config("", "", "", NilClient, <<>>, <<>>) EXCEPT !.ProxiedSites = NilProxiedSites]

(***************************************************************************)
(* The YAML codec (getlantern/yaml), from its interface: a document names  *)
(* the fields it carries; decoding overwrites only those; a map field is   *)
(* decoded into the existing map, a slice field replaces the slice.        *)
(***************************************************************************)
FieldNames ==
  {"FrontedServers", "ChainedServers", "MasqueradeSets", "TrustedCAs",
   "Cloud", "CloudConfig", "Addr"}

Doc(kind, present, fs, cs, ms, cas, cloud, url, addr) ==
  [kind |-> kind, present |-> present, FrontedServers |-> fs,
   ChainedServers |-> cs, MasqueradeSets |-> ms, TrustedCAs |-> cas,
   Cloud |-> cloud, CloudConfig |-> url, Addr |-> addr]

\* decoding a map value into a map that already holds entries
MapMerge(old, new) ==
  [k \in (DOMAIN old) \cup (DOMAIN new) |->
     IF k \in DOMAIN new THEN new[k] ELSE old[k]]

\* yaml.Unmarshal(bytes, c) having written the fields W of the document
Unmarshal(doc, c, W) ==
  [c EXCEPT
     !.Client = IF c.Client.isNil THEN c.Client ELSE
       [c.Client EXCEPT
          !.nilFields = @ \ W,
          !.FrontedServers =
             IF "FrontedServers" \in W THEN doc.FrontedServers ELSE @,
          !.ChainedServers =
             IF "ChainedServers" \in W THEN MapMerge(@, doc.ChainedServers) ELSE @,
          !.MasqueradeSets =
             IF "MasqueradeSets" \in W THEN MapMerge(@, doc.MasqueradeSets) ELSE @],
     !.TrustedCAs = IF "TrustedCAs" \in W THEN doc.TrustedCAs ELSE @,
     !.ProxiedSites =
        IF "Cloud" \in W THEN [isNil |-> FALSE, Cloud |-> doc.Cloud] ELSE @,
     !.CloudConfig = IF "CloudConfig" \in W THEN doc.CloudConfig ELSE @,
     !.Addr = IF "Addr" \in W THEN doc.Addr ELSE @]

\* The sets of fields a decode of doc can have written when it returns:
\* all of them on success, none on a syntax error (the parse precedes the
\* decode), any part of them when a value does not fit its field.
Writes(doc) ==
  CASE doc.kind = "ok" -> {doc.present}
    [] doc.kind = "syntax" -> {{}}
    [] OTHER -> SUBSET doc.present

(***************************************************************************)
(* updateFrom (config.go 622-653).                                         *)
(***************************************************************************)
\* lines 628-631: the four collections set to empty
ClearCollections(c) ==
  [c EXCEPT !.Client.FrontedServers = <<>>,
            !.Client.ChainedServers = EmptyMap,
            !.Client.MasqueradeSets = EmptyMap,
            !.Client.nilFields = {},
            !.TrustedCAs = <<>>]

\* lines 634-637: the four collections of c set back to those of old
RestoreCollections(c, old) ==
  [c EXCEPT !.Client.FrontedServers = old.Client.FrontedServers,
            !.Client.ChainedServers = old.Client.ChainedServers,
            !.Client.MasqueradeSets = old.Client.MasqueradeSets,
            !.Client.nilFields = old.Client.nilFields,
            !.TrustedCAs = old.TrustedCAs]

\* faulty variant: the duplicates are not removed before the sort
DedupCloud_KeepDuplicates(cloud) ==
  IF Len(cloud) > 0 THEN SortStrings(cloud) ELSE cloud

\* lines 641-651: the cloud list through a map's keys, then sorted
DedupCloud(cloud) ==
  IF Len(cloud) > 0 THEN SortStrings(MapKeys(Elems(cloud))) ELSE cloud

\* faulty variant: a failed decode returns without restoring the collections
updateFrom_NoRestore(c, doc, W) ==
  IF c.Client.isNil THEN [cfg |-> c, out |-> "panic"]
  ELSE LET u == Unmarshal(doc, ClearCollections(c), W) IN
    IF doc.kind # "ok" THEN [cfg |-> u, out |-> "err"]
    ELSE IF u.ProxiedSites.isNil THEN [cfg |-> u, out |-> "panic"]
    ELSE [cfg |-> [u EXCEPT !.ProxiedSites.Cloud = DedupCloud(@)], out |-> "ok"]

\* faulty variant: the collections are not cleared before the decode
updateFrom_NoClear(c, doc, W) ==
  IF c.Client.isNil THEN [cfg |-> c, out |-> "panic"]
  ELSE LET u == Unmarshal(doc, c, W) IN
    IF doc.kind # "ok" THEN [cfg |-> RestoreCollections(u, c), out |-> "err"]
    ELSE IF u.ProxiedSites.isNil THEN [cfg |-> u, out |-> "panic"]
    ELSE [cfg |-> [u EXCEPT !.ProxiedSites.Cloud = DedupCloud(@)], out |-> "ok"]

\* updateFrom on configuration c with payload doc, the decode having written
\* the fields W: the configuration afterwards and how the call ended.  A nil
\* Client makes line 624 dereference a nil pointer, a nil ProxiedSites
\* line 641.
updateFrom(c, doc, W) ==
  IF c.Client.isNil THEN [cfg |-> c, out |-> "panic"]
  ELSE LET u == Unmarshal(doc, ClearCollections(c), W) IN
    IF doc.kind # "ok" THEN [cfg |-> RestoreCollections(u, c), out |-> "err"]
    ELSE IF u.ProxiedSites.isNil THEN [cfg |-> u, out |-> "panic"]
    ELSE [cfg |-> [u EXCEPT !.ProxiedSites.Cloud = DedupCloud(@)], out |-> "ok"]

(***************************************************************************)
(* ApplyDefaults (config.go 390-443) and applyClientDefaults (467-533).    *)
(***************************************************************************)
\* lines 514-524: QOS, Weight and RedialAttempts of one fronted server
ServerDefaults(s) ==
  [s EXCEPT !.QOS = IF @ = 0 THEN 5 ELSE @,
            !.Weight = IF @ = 0 THEN 100 ELSE @,
            !.RedialAttempts = IF @ = 0 THEN 2 ELSE @]

RECURSIVE InsertByHost(_, _)
InsertByHost(x, s) ==
  IF s = <<>> THEN <<x>>
  ELSE IF StrLess(x.Host, Head(s).Host) THEN <<x>> \o s
  ELSE <<Head(s)>> \o InsertByHost(x, Tail(s))

RECURSIVE SortServers(_)
\* client.SortServers: the fronted servers ordered by host
SortServers(s) ==
  IF s = <<>> THEN <<>> ELSE InsertByHost(Head(s), SortServers(Tail(s)))

\* faulty variant: a fresh instance identifier on every call
InstanceIdDefault_Regenerate(old, id) == id

\* lines 407-409: uuid.New() only when there is no identifier yet
InstanceIdDefault(old, id) == IF old = "" THEN id ELSE old

\* the value of the statshubaddr flag
statshubAddr == "hub"

\* lines 412-418: a statreporter.Config with a statshub address
StatsDefault(st) ==
  [isNil |-> FALSE,
   StatshubAddr |-> IF st.isNil \/ st.StatshubAddr = ""
                    THEN statshubAddr ELSE st.StatshubAddr]

\* lines 467-533, on the whole configuration: AutoReport and AutoLaunch are
\* fields of Config that only this function fills in
applyClientDefaults(c) ==
  [c EXCEPT
     !.Client.MasqueradeSets =
        IF DOMAIN @ = {} THEN [k \in {cloudflare} |-> cloudflareMasquerades]
        ELSE @,
     !.Client.FrontedServers =
        SortServers([i \in DOMAIN @ |-> ServerDefaults(@[i])]),
     !.Client.nilFields = {},
     !.AutoReport = IF @ = NilBool THEN BoolPtr(TRUE) ELSE @,
     !.AutoLaunch = IF @ = NilBool THEN BoolPtr(TRUE) ELSE @]

\* ApplyDefaults on configuration c, id being what uuid.New() would return
ApplyDefaults(c, id) ==
  LET role == IF c.Role = "" THEN "client" ELSE c.Role
      d == [c EXCEPT
              !.Role = role,
              !.Addr = IF @ = "" THEN "127.0.0.1:8787" ELSE @,
              !.UIAddr = IF @ = "" THEN "127.0.0.1:16823" ELSE @,
              !.CloudConfig = IF @ = "" THEN defaultCloudConfigUrl ELSE @,
              !.InstanceId = InstanceIdDefault(@, id),
              !.Stats = StatsDefault(@)]
      e == IF ~d.Client.isNil /\ role = "client"
           THEN applyClientDefaults(d) ELSE d
  IN [e EXCEPT
        !.ProxiedSites =
           [isNil |-> FALSE,
            Cloud |-> IF Len(@.Cloud) = 0 THEN defaultProxiedSites ELSE @.Cloud],
        !.TrustedCAs = IF Len(@) = 0 THEN defaultTrustedCAs ELSE @]

\* the identifiers uuid.New() is let return
UUIDs == {"id1", "id2"}

(***************************************************************************)
(* Payloads.  The cloud server publishes document versions 1, 2, ...; the  *)
(* validation token of version v is v, and 0 stands for the empty string   *)
(* (no token).                                                             *)
(***************************************************************************)
NoTok == 0

\* well formed: every collection, two fronted servers without QOS/weight,
\* an unordered cloud list with a duplicate
DocFull ==
  Doc("ok",
      {"FrontedServers", "ChainedServers", "MasqueradeSets", "TrustedCAs", "Cloud"},
      <<FrontedServerInfo(sb, 0, 0, 0), FrontedServerInfo(sa, 0, 0, 0)>>,
      [k \in {"s1"} |-> "addr1"],
      [k \in {"ms1"} |-> "masq1"],
      <<"ca1">>, <<sb, sa, sa>>, "", "")

\* a value that does not fit its field: the decode fails part of the way
DocBadType ==
  Doc("type", {"ChainedServers", "TrustedCAs", "Cloud", "Addr"},
      <<>>, [k \in {"s2"} |-> "addr2"], EmptyMap, <<"ca2">>, <<sA>>, "", "a2")

\* well formed: chained servers and a new cloud-config URL only
DocPartial ==
  Doc("ok", {"ChainedServers", "CloudConfig"},
      <<>>, [k \in {"s2", "s3"} |-> "addr2"], EmptyMap, <<>>, <<>>,
      otherCloudConfigUrl, "")

\* not YAML at all
DocBadSyntax ==
  Doc("syntax", {"TrustedCAs", "Addr"},
      <<>>, EmptyMap, EmptyMap, <<"ca3">>, <<>>, "", "a3")

\* well formed: a cloud list mixing case and prefixes, tuned fronted server
DocCloud ==
  Doc("ok", {"FrontedServers", "Cloud", "Addr"},
      <<FrontedServerInfo(sab, 7, 0, 1)>>, EmptyMap, EmptyMap, <<>>,
      <<sab, sA, sa, sab>>, "", "a2")

\* well formed: an explicitly empty cloud list and empty cloud-config URL
DocEmptyCloud ==
  Doc("ok", {"Cloud", "MasqueradeSets", "CloudConfig"},
      <<>>, EmptyMap, [k \in {"ms2"} |-> "masq2"], <<>>, <<>>, "", "")

\* the nil body of a 304, handed to yaml.Unmarshal: an empty document
NilDoc == Doc("ok", {}, <<>>, EmptyMap, EmptyMap, <<>>, <<>>, "", "")

DocTable == <<DocFull, DocPartial, DocBadType, DocBadSyntax, DocCloud>>

\* the document the server serves as version v
DocOf(v) == DocTable[((v - 1) % Len(DocTable)) + 1]

\* every payload the merge is exercised with
DocSet == Elems(DocTable) \cup {DocEmptyCloud, NilDoc}

\* configurations the merge is exercised on, besides those it produces
CfgThreeChained ==
  Config("client", defaultCloudConfigUrl, "127.0.0.1:8787",
         ClientConfig(<<FrontedServerInfo(sa, 5, 100, 2)>>,
                      [k \in {"s1", "s4", "s5"} |-> "addr0"],
                      [k \in {cloudflare} |-> cloudflareMasquerades]),
         <<sa, sb>>, <<"ca0", "ca1">>)

CfgServerRole ==
  Config("server", defaultCloudConfigUrl, "a0", NilClient, <<>>, <<"ca0">>)

\* a client configuration written by hand: an identifier, the flags off,
\* one server tuned and one not, the collections partly nil
CfgTuned ==
  [Config("", "u2", "", [ZeroClient EXCEPT
             !.FrontedServers = <<FrontedServerInfo(sb, 9, 0, 0),
                                  FrontedServerInfo(sa, 0, 7, 3)>>,
             !.nilFields = {"ChainedServers", "MasqueradeSets"}],
          <<>>, <<>>)
     EXCEPT !.InstanceId = "id0", !.AutoReport = BoolPtr(FALSE),
            !.AutoLaunch = BoolPtr(FALSE)]

CfgSet ==
  {EmptyConfig, ApplyDefaults(EmptyConfig, "id1"),
   [EmptyConfig EXCEPT !.Client = ZeroClient],
   [EmptyConfig EXCEPT !.Client = ClientConfig(<<>>, EmptyMap, EmptyMap)],
   ApplyDefaults([EmptyConfig EXCEPT !.Client = ClientConfig(<<>>, EmptyMap, EmptyMap)], "id1"),
   CfgThreeChained, CfgServerRole, CfgTuned}

(***************************************************************************)
(* State.                                                                  *)
(***************************************************************************)
VARIABLES
  cfg,                  \* the configuration the manager holds and hands out
  call,                 \* the latest updateFrom / ApplyDefaults call: its
                        \* receiver before the call, payload and outcome
  mpc,                  \* where the manager's thread is
  alive,                \* FALSE once the process has died (panic, fatal error)
  lastCloudConfigETag,  \* the process-wide map URL -> token
  serverVer,            \* the version the cloud server currently serves
  pc, url, hdr, resp, res,   \* per fetch task: position, url argument,
                        \* If-None-Match sent, response in flight, result
  once, configs,        \* the sync.Once and the 1-slot channel
  config,               \* what FirstRunSetup received from the channel
  sent,                 \* history: every payload ever put on the channel
  pollRet,              \* what pollWithHttpClient returned
  waitTime,             \* the waitTime it returned, in milliseconds
  ipc,                  \* where Init (169-248) is
  dir,                  \* what os.Stat says of the configuration directory
  files,                \* the files of the configuration directory
  merged                \* history: the versions of the payloads that
                        \* updateFrom has merged without error

\* the variables of Init's first steps
initVars == <<ipc, dir, files>>

vars ==
  <<cfg, call, mpc, alive, lastCloudConfigETag, serverVer, pc, url, hdr,
    resp, res, once, configs, config, sent, pollRet, waitTime, ipc, dir,
    files, merged>>

\* Fetch tasks: the direct domain-fronted attempt, one attempt per chained
\* server, and the poller.
\* The packaged settings name NChained chained servers; the race is also
\* explored on its own with one server more (SpecBoot).
Direct == 0
Chained == 1 .. (NChained + 1)
Poller == NChained + 2
\* the attempts of a race over n chained servers
Racers(n) == {Direct} \cup (1 .. n)
BootTasks == {Direct} \cup Chained
Tasks == BootTasks \cup {Poller}

NoResp == [status |-> -1, tok |-> NoTok, ver |-> 0]
NoRes == [kind |-> "none", ver |-> 0]
ErrRes == [kind |-> "err", ver |-> 0]
NilRes == [kind |-> "nil", ver |-> 0]
BodyRes(v) == [kind |-> "body", ver |-> v]
NoCall == [op |-> "none"]
NoPollRet == [mutate |-> "none", ver |-> 0, err |-> FALSE]

\* the bytes of a fetch result as a document
PayloadDoc(r) == IF r.kind = "body" THEN DocOf(r.ver) ELSE NilDoc

\* what the manager holds when it starts: after a first run's EmptyConfig and
\* ApplyDefaults (the Client the flags may or may not have created), or a
\* configuration loaded from disk (the cloudconfig flag may have emptied the URL)
FirstRunCfgs ==
  {ApplyDefaults(EmptyConfig, id) : id \in UUIDs} \cup
  {ApplyDefaults([EmptyConfig EXCEPT !.Client = ZeroClient], "id1")}

LoadedCfgs ==
  {ApplyDefaults(CfgThreeChained, "id1"),
   [ApplyDefaults(CfgThreeChained, "id1") EXCEPT !.CloudConfig = ""]}

(***************************************************************************)
(* Init's first steps (config.go 169-176): the configuration directory     *)
(* (InConfigDir, 345-363) and the migration of an older configuration file *)
(* (copyGoodOldConfig, 134-166).                                           *)
(***************************************************************************)
\* a file name, as the parts strings.HasPrefix and strings.HasSuffix look at
HasPrefix(name, p) == name[1] = p
HasSuffix(name, x) == name[Len(name)] = x

\* "lantern-" + version + ".yaml", and what else the directory may hold
CurName == <<"lantern", "-2.0.2", ".yaml">>
OldName == <<"lantern", "-2.0.1", ".yaml">>
OlderName == <<"lantern", "-2.0.0", ".yaml">>
OtherName == <<"settings", ".yaml">>
Names == {CurName, OldName, OlderName, OtherName}

\* ioutil.ReadDir returns the entries sorted by file name
DirOrder == <<OlderName, OldName, CurName, OtherName>>

\* What a path holds: nothing, a directory, something os.Stat fails on for
\* another reason than absence, or a file that cannot be read, is not YAML,
\* is YAML without a client section, or is YAML with nc chained servers.
\* orig is the name the file was created under.
Entry(kind, nc, name) == [kind |-> kind, nc |-> nc, orig |-> name]
Absent == Entry("absent", 0, <<>>)
Yaml(nc, name) == Entry("yaml", nc, name)

\* exists (85-93): false only when os.Stat reports that nothing is there
exists(f) == f.kind # "absent"

\* hasCustomChainedServer (97-121): "true", "false", or "panic" when the
\* file has no client section and line 114 dereferences the nil Client
hasCustomChainedServer(f, name) ==
  IF ~(HasPrefix(name, "lantern") /\ HasSuffix(name, ".yaml")) THEN "false"
  ELSE IF f.kind \in {"dir", "unreadable"} THEN "false"
  ELSE IF f.kind = "badyaml" THEN "false"
  ELSE IF f.kind = "noclient" THEN "panic"
  ELSE IF f.nc > 0 /\ f.nc < 10 THEN "true" ELSE "false"

\* isGoodConfig (123-127); after a failed os.Stat fi is nil and fi.Name()
\* panics
isGoodConfig(f, name) ==
  IF ~exists(f) THEN "false"
  ELSE IF f.kind = "staterr" THEN "panic"
  ELSE hasCustomChainedServer(f, name)

RECURSIVE ScanDir(_, _, _)
\* lines 148-164: the loop over the directory from entry i on; os.Rename
\* fails on the files of fail
ScanDir(fs, i, fail) ==
  IF i > Len(DirOrder) THEN [files |-> fs, out |-> "none"]
  ELSE LET name == DirOrder[i]
           f == fs[name]
       IN IF f.kind \in {"absent", "dir"} THEN ScanDir(fs, i + 1, fail)
          ELSE LET good == isGoodConfig(f, name) IN
            IF good = "panic" THEN [files |-> fs, out |-> "panic"]
            ELSE IF good = "true" /\ name \notin fail
              THEN [files |-> [fs EXCEPT ![CurName] = f, ![name] = Absent],
                    out |-> "moved"]
            ELSE ScanDir(fs, i + 1, fail)

\* copyGoodOldConfig on the directory fs: the directory afterwards and how
\* the call ended; rd tells whether ioutil.ReadDir succeeds
copyGoodOldConfig(fs, rd, fail) ==
  LET good == isGoodConfig(fs[CurName], CurName) IN
  IF good = "panic" THEN [files |-> fs, out |-> "panic"]
  ELSE IF good = "true" THEN [files |-> fs, out |-> "kept"]
  ELSE IF ~rd THEN [files |-> fs, out |-> "none"]
  ELSE ScanDir(fs, 1, fail)

\* InConfigDir (345-363) when os.Stat of the directory says d and
\* os.MkdirAll would succeed or not (mk): the directory afterwards and
\* whether an error is returned.  Only a missing directory is created; any
\* other os.Stat error is dropped.
InConfigDir(d, mk) ==
  CASE d = "missing" -> IF mk THEN [dir |-> "ok", err |-> FALSE]
                        ELSE [dir |-> d, err |-> TRUE]
    [] OTHER -> [dir |-> d, err |-> FALSE]

\* the directories Init is started on
DirContents ==
  {[n \in Names |->
      CASE n = CurName -> c [] n = OldName -> o [] n = OlderName -> oo
        [] OTHER -> x] :
     c \in {Absent, Entry("staterr", 0, CurName), Entry("unreadable", 0, CurName),
            Entry("badyaml", 0, CurName), Entry("noclient", 0, CurName),
            Yaml(0, CurName), Yaml(3, CurName), Yaml(10, CurName)},
     o \in {Absent, Entry("dir", 0, OldName), Entry("noclient", 0, OldName),
            Yaml(0, OldName), Yaml(1, OldName), Yaml(9, OldName),
            Yaml(10, OldName)},
     oo \in {Absent, Yaml(2, OlderName)},
     x \in {Absent, Yaml(4, OtherName)}}

NoFiles == [n \in Names |-> Absent]

\* the main specifications start where Init has got past these steps
InitDone == ipc = "done" /\ dir = "ok" /\ files = NoFiles

InitCommon ==
  /\ call = NoCall
  /\ alive = TRUE
  /\ lastCloudConfigETag = EmptyMap
  /\ serverVer = 1
  /\ hdr = [t \in Tasks |-> [set |-> FALSE, val |-> NoTok]]
  /\ resp = [t \in Tasks |-> NoResp]
  /\ res = [t \in Tasks |-> NoRes]
  /\ once = FALSE
  /\ configs = <<>>
  /\ config = NoRes
  /\ sent = <<>>
  /\ pollRet = NoPollRet
  /\ waitTime = 0
  /\ merged = {}

\* Init (config.go 169-248): a first run starts the bootstrap race and waits
\* on the channel; otherwise the configuration comes from disk.
Init ==
  /\ InitCommon
  /\ InitDone
  /\ \/ /\ cfg \in FirstRunCfgs
        /\ mpc = "firstrun"
        /\ pc = [t \in Tasks |-> IF t \in Racers(NChained) THEN "start" ELSE "idle"]
        /\ url = [t \in Tasks |-> IF t \in Racers(NChained) THEN cfg.CloudConfig ELSE ""]
     \/ /\ cfg \in LoadedCfgs
        /\ mpc = "idle"
        /\ pc = [t \in Tasks |-> "idle"]
        /\ url = [t \in Tasks |-> ""]

(***************************************************************************)
(* fetchCloudConfig (566-600) and readConfigResponse (602-617).            *)
(***************************************************************************)
\* bootstrap 260-264: the chained server's dialer cannot be built
DialerFail(t) ==
  /\ alive /\ t \in Chained /\ pc[t] = "start"
  /\ pc' = [pc EXCEPT ![t] = "done"]
  /\ UNCHANGED <<initVars, merged, waitTime, cfg, call, mpc, alive, lastCloudConfigETag, serverVer, url,
                 hdr, resp, res, once, configs, config, sent, pollRet>>

\* lastCloudConfigETag[u]: a key the map does not hold reads as ""
Lookup(u) ==
  IF u \in DOMAIN lastCloudConfigETag THEN lastCloudConfigETag[u] ELSE NoTok

\* lastCloudConfigETag[u] = k
Store(u, k) ==
  [x \in (DOMAIN lastCloudConfigETag) \cup {u} |->
     IF x = u THEN k ELSE lastCloudConfigETag[x]]

NoHdr == [set |-> FALSE, val |-> NoTok]

\* faulty variant: the request never carries the cached token
RequestHeader_Never(u) == NoHdr

\* lines 572-575: the If-None-Match header of a request for u
RequestHeader(u) ==
  IF Lookup(u) # NoTok THEN [set |-> TRUE, val |-> Lookup(u)] ELSE NoHdr

\* lines 568-589: the request is built from the cache and sent
FetchStart(t) ==
  /\ alive /\ t \in Chained \cup {Poller} /\ pc[t] = "start"
  /\ hdr' = [hdr EXCEPT ![t] = RequestHeader(url[t])]
  /\ pc' = [pc EXCEPT ![t] = "requested"]
  /\ UNCHANGED <<initVars, merged, waitTime, cfg, call, mpc, alive, lastCloudConfigETag, serverVer, url,
                 resp, res, once, configs, config, sent, pollRet>>

\* FirstRunSetup 205-211: the direct fronter cannot be created
DirectFail ==
  /\ alive /\ pc[Direct] = "start"
  /\ pc' = [pc EXCEPT ![Direct] = "done"]
  /\ UNCHANGED <<initVars, merged, waitTime, cfg, call, mpc, alive, lastCloudConfigETag, serverVer, url,
                 hdr, resp, res, once, configs, config, sent, pollRet>>

\* FirstRunSetup 206-210: direct.Response(url) sends its own request, which
\* carries no token of the cache
DirectRequest ==
  /\ alive /\ pc[Direct] = "start"
  /\ pc' = [pc EXCEPT ![Direct] = "requested"]
  /\ UNCHANGED <<initVars, merged, waitTime, cfg, call, mpc, alive, lastCloudConfigETag, serverVer, url,
                 hdr, resp, res, once, configs, config, sent, pollRet>>

\* What can come back for a request carrying header h: a transport error
\* (status 0), an unexpected status, 304 when h names the current version,
\* or 200 with the current version and its token or no token header.
Answers(h) ==
  {[status |-> 0, tok |-> NoTok, ver |-> 0],
   [status |-> 500, tok |-> NoTok, ver |-> 0]}
  \cup (IF h.set /\ h.val = serverVer
        THEN {[status |-> 304, tok |-> NoTok, ver |-> 0]} ELSE {})
  \cup {[status |-> 200, tok |-> k, ver |-> serverVer] : k \in {serverVer, NoTok}}

\* client.Do returns (589) / direct.Response returns (210)
ServerAnswer(t) ==
  /\ alive /\ pc[t] = "requested"
  /\ \E a \in Answers(hdr[t]) : resp' = [resp EXCEPT ![t] = a]
  /\ hdr' = [hdr EXCEPT ![t] = NoHdr]
  /\ pc' = [pc EXCEPT ![t] = "responded"]
  /\ UNCHANGED <<initVars, merged, waitTime, cfg, call, mpc, alive, lastCloudConfigETag, serverVer, url,
                 res, once, configs, config, sent, pollRet>>

\* faulty variant: the token is stored for a 304 as well
CacheAfter_On304(r, u) ==
  IF r.status \in {200, 304}
  THEN Store(u, r.tok) ELSE lastCloudConfigETag

\* faulty variant: the token is stored only when the response carries one
CacheAfter_SkipEmpty(r, u) ==
  IF r.status = 200 /\ r.tok # NoTok
  THEN Store(u, r.tok) ELSE lastCloudConfigETag

\* lines 603-610: the cache after response r for url u was read
CacheAfter(r, u) ==
  IF r.status = 200
  THEN Store(u, r.tok) ELSE lastCloudConfigETag

\* lines 590-592, 603-616: the result of the fetch for response r, gz telling
\* whether the body could be decompressed
FetchResult(r, gz) ==
  CASE r.status = 304 -> NilRes
    [] r.status = 200 /\ gz -> BodyRes(r.ver)
    [] OTHER -> ErrRes

\* readConfigResponse, and fetchCloudConfig returning
ReadResponse(t) ==
  /\ alive /\ pc[t] = "responded"
  /\ lastCloudConfigETag' = CacheAfter(resp[t], url[t])
  /\ \E gz \in (IF resp[t].status = 200 THEN BOOLEAN ELSE {TRUE}) :
       res' = [res EXCEPT ![t] = FetchResult(resp[t], gz)]
  /\ resp' = [resp EXCEPT ![t] = NoResp]
  /\ pc' = [pc EXCEPT ![t] = "fetched"]
  /\ UNCHANGED <<initVars, merged, waitTime, cfg, call, mpc, alive, serverVer, url, hdr, once, configs,
                 config, sent, pollRet>>

\* the cloud server publishes the next version of the document
ServerPublish ==
  /\ alive /\ serverVer < MaxVersion
  /\ serverVer' = serverVer + 1
  /\ UNCHANGED <<initVars, merged, waitTime, cfg, call, mpc, alive, lastCloudConfigETag, pc, url, hdr,
                 resp, res, once, configs, config, sent, pollRet>>

(***************************************************************************)
(* The bootstrap race: bootstrap (258-278) and FirstRunSetup (197-225).    *)
(***************************************************************************)
\* line 197: make(chan []byte, 1)
ChanCap == 1

\* faulty variant: the body is sent without the once gate whenever the slot is free
Delivers_NoOnce(r) == r.kind \in {"nil", "body"} /\ Len(configs) < ChanCap

\* faulty variant: every attempt whose fetch returned a nil error sends
Delivers_Ungated(r) == r.kind \in {"nil", "body"}

\* lines 272-276 and 214-217: once.Do runs its function for the first caller
\* whose fetch returned a nil error
Delivers(r) == r.kind \in {"nil", "body"} /\ ~once

\* the attempt ends: `if err == nil { once.Do(func() { configs <- bytes }) }`;
\* a send waits while the channel is full
Deliver(t) ==
  /\ alive /\ t \in BootTasks /\ pc[t] = "fetched"
  /\ IF Delivers(res[t])
     THEN /\ Len(configs) < ChanCap
          /\ once' = TRUE
          /\ configs' = Append(configs, res[t])
          /\ sent' = Append(sent, res[t])
     ELSE UNCHANGED <<once, configs, sent>>
  /\ res' = [res EXCEPT ![t] = NoRes]
  /\ pc' = [pc EXCEPT ![t] = "done"]
  /\ UNCHANGED <<initVars, merged, waitTime, cfg, call, mpc, alive, lastCloudConfigETag, serverVer, url,
                 hdr, resp, config, pollRet>>

\* updateFrom called on the manager's configuration with payload d
Merge(d) ==
  \E W \in Writes(d) :
    LET r == updateFrom(cfg, d, W) IN
      /\ cfg' = r.cfg
      /\ call' = [op |-> "updateFrom", pre |-> cfg, doc |-> d, out |-> r.out]
      /\ alive' = (r.out # "panic")

\* lines 223-225: `config := <-configs; return cfg.updateFrom(config)`; an
\* error makes Init fail
Consume ==
  /\ alive /\ mpc = "firstrun" /\ configs # <<>>
  /\ config' = Head(configs)
  /\ configs' = Tail(configs)
  /\ Merge(PayloadDoc(Head(configs)))
  /\ merged' = IF call'.out = "ok" /\ Head(configs).kind = "body"
               THEN merged \cup {Head(configs).ver} ELSE merged
  /\ mpc' = IF call'.out = "ok" THEN "merged" ELSE "stopped"
  /\ UNCHANGED <<initVars, waitTime, lastCloudConfigETag, serverVer, pc, url, hdr, resp, res,
                 once, sent, pollRet>>

\* the manager after a mutation: defaults are applied to an accepted
\* configuration and it becomes current; a failed one is dropped
Publish ==
  /\ alive /\ mpc = "merged"
  /\ \E id \in UUIDs :
       cfg' = IF call.out = "ok" THEN ApplyDefaults(cfg, id) ELSE call.pre
  /\ call' = NoCall
  /\ mpc' = "idle"
  /\ UNCHANGED <<initVars, merged, waitTime, alive, lastCloudConfigETag, serverVer, pc, url, hdr, resp,
                 res, once, configs, config, sent, pollRet>>

(***************************************************************************)
(* pollWithHttpClient (280-313) and the manager applying its result.       *)
(***************************************************************************)
\* CloudConfigPollInterval (1 * time.Minute), in milliseconds: the code
\* counts nanoseconds in 64 bits, where nothing overflows either
CloudConfigPollInterval == 60000

\* rand.Int63n(n) returns a number of [0, n): the ends of the range and
\* the middle
Int63n(n) == {0, n \div 2, n - 1}

\* faulty variant: the jitter alone, without half the interval
cloudPollSleepTime_JitterOnly(r) == r

\* cloudPollSleepTime (543-545), r being what rand.Int63n returned
cloudPollSleepTime(r) == (CloudConfigPollInterval \div 2) + r

\* lines 288-291: no CloudConfig, nothing is fetched
PollNoUrl ==
  /\ alive /\ mpc = "idle" /\ cfg.CloudConfig = ""
  /\ pollRet' = [mutate |-> "noop", ver |-> 0, err |-> FALSE]
  /\ \E r \in Int63n(CloudConfigPollInterval) : waitTime' = cloudPollSleepTime(r)
  /\ mpc' = "returned"
  /\ UNCHANGED <<initVars, merged, cfg, call, alive, lastCloudConfigETag, serverVer, pc, url,
                 hdr, resp, res, once, configs, config, sent>>

\* lines 293-298: fetchCloudConfig(client, cfg.CloudConfig, "") is entered
PollBegin ==
  /\ alive /\ mpc = "idle" /\ cfg.CloudConfig # ""
  /\ url' = [url EXCEPT ![Poller] = cfg.CloudConfig]
  /\ pc' = [pc EXCEPT ![Poller] = "start"]
  /\ mpc' = "polling"
  /\ UNCHANGED <<initVars, merged, waitTime, cfg, call, alive, lastCloudConfigETag, serverVer, hdr, resp,
                 res, once, configs, config, sent, pollRet>>

\* faulty variant: an unchanged (nil) body is turned into a merge as well
PollResult_MergeNil(r) ==
  CASE r.kind = "err" -> [mutate |-> "noop", ver |-> 0, err |-> TRUE]
    [] OTHER -> [mutate |-> "merge", ver |-> r.ver, err |-> FALSE]

\* lines 298-312: the (mutate, err) returned for fetch result r
PollResult(r) ==
  CASE r.kind = "err" -> [mutate |-> "noop", ver |-> 0, err |-> TRUE]
    [] r.kind = "body" -> [mutate |-> "merge", ver |-> r.ver, err |-> FALSE]
    [] OTHER -> [mutate |-> "noop", ver |-> 0, err |-> FALSE]

PollReturn ==
  /\ alive /\ mpc = "polling" /\ pc[Poller] = "fetched"
  /\ pollRet' = PollResult(res[Poller])
  /\ \E r \in Int63n(CloudConfigPollInterval) : waitTime' = cloudPollSleepTime(r)
  /\ pc' = [pc EXCEPT ![Poller] = "idle"]
  /\ mpc' = "returned"
  /\ UNCHANGED <<initVars, merged, cfg, call, alive, lastCloudConfigETag, serverVer, url, hdr,
                 resp, res, once, configs, config, sent>>

\* the manager after a poll that returned an error, or whose mutation does
\* nothing: the configuration stays
ApplyNoop ==
  /\ alive /\ mpc = "returned" /\ pollRet.mutate = "noop"
  /\ pollRet' = NoPollRet
  /\ waitTime' = 0
  /\ res' = [res EXCEPT ![Poller] = NoRes]
  /\ mpc' = "idle"
  /\ UNCHANGED <<initVars, merged, cfg, call, alive, lastCloudConfigETag, serverVer, pc, url,
                 hdr, resp, once, configs, config, sent>>

\* lines 302-306: the closure runs updateFrom(bytes) on the configuration it
\* is handed, which is the manager's at that moment
ApplyMutation ==
  /\ alive /\ mpc = "returned" /\ pollRet.mutate = "merge"
  /\ Merge(DocOf(pollRet.ver))
  /\ merged' = IF call'.out = "ok" THEN merged \cup {pollRet.ver} ELSE merged
  /\ pollRet' = NoPollRet
  /\ waitTime' = 0
  /\ res' = [res EXCEPT ![Poller] = NoRes]
  /\ mpc' = "merged"
  /\ UNCHANGED <<initVars, lastCloudConfigETag, serverVer, pc, url, hdr, resp, once,
                 configs, config, sent>>

\* Update (338-342): another part of the program changes the configuration
UserUpdate ==
  /\ alive /\ mpc \in {"idle", "polling", "returned"}
  /\ cfg' = [cfg EXCEPT !.Addr = IF @ = "a9" THEN "127.0.0.1:8787" ELSE "a9"]
  /\ UNCHANGED <<initVars, merged, waitTime, call, mpc, alive, lastCloudConfigETag, serverVer, pc, url,
                 hdr, resp, res, once, configs, config, sent, pollRet>>

(***************************************************************************)
(* The ETag map is a plain Go map used by every fetch task without a lock. *)
(* Two tasks about to access it, one of them writing, race; the runtime    *)
(* may then abort the process (concurrent map read and map write).         *)
(***************************************************************************)
AboutToRead(t) == t \in Chained \cup {Poller} /\ pc[t] = "start"
AboutToWrite(t) == pc[t] = "responded" /\ resp[t].status = 200

Racing ==
  \E t1, t2 \in Tasks :
    t1 # t2 /\ AboutToWrite(t1) /\ (AboutToRead(t2) \/ AboutToWrite(t2))

RaceCrash ==
  /\ alive /\ Racing
  /\ alive' = FALSE
  /\ UNCHANGED <<initVars, merged, waitTime, cfg, call, mpc, lastCloudConfigETag, serverVer, pc, url,
                 hdr, resp, res, once, configs, config, sent, pollRet>>

Next ==
  \/ \E t \in Tasks : DialerFail(t) \/ FetchStart(t) \/ ServerAnswer(t)
                      \/ ReadResponse(t) \/ Deliver(t)
  \/ DirectFail \/ DirectRequest \/ ServerPublish
  \/ Consume \/ Publish
  \/ PollNoUrl \/ PollBegin \/ PollReturn \/ ApplyNoop \/ ApplyMutation
  \/ UserUpdate \/ RaceCrash

Spec == Init /\ [][Next]_vars

(***************************************************************************)
(* The bootstrap race on its own, over one chained server more, the cloud  *)
(* document staying what it is.  The attempts are goroutines and the       *)
(* consumer is Init's thread: each of them takes its next step when it can.*)
(***************************************************************************)
InitBoot ==
  /\ InitCommon
  /\ InitDone
  /\ cfg \in FirstRunCfgs
  /\ mpc = "firstrun"
  /\ pc = [t \in Tasks |-> IF t \in BootTasks THEN "start" ELSE "idle"]
  /\ url = [t \in Tasks |-> IF t \in BootTasks THEN cfg.CloudConfig ELSE ""]

NextBoot ==
  \/ \E t \in BootTasks : DialerFail(t) \/ FetchStart(t) \/ ServerAnswer(t)
                          \/ ReadResponse(t) \/ Deliver(t)
  \/ DirectFail \/ DirectRequest
  \/ Consume \/ RaceCrash

FairBoot ==
  /\ \A t \in BootTasks : WF_vars(ReadResponse(t)) /\ WF_vars(Deliver(t))
  /\ WF_vars(Consume)

SpecBoot == InitBoot /\ [][NextBoot]_vars /\ FairBoot

(***************************************************************************)
(* The merge and the defaults on their own: any configuration of CfgSet,   *)
(* any payload of DocSet, in any order.                                    *)
(***************************************************************************)
InitMerge ==
  /\ InitCommon
  /\ InitDone
  /\ cfg \in CfgSet
  /\ mpc = "idle"
  /\ pc = [t \in Tasks |-> "idle"]
  /\ url = [t \in Tasks |-> ""]

CallUpdateFrom ==
  /\ alive
  /\ \E d \in DocSet : Merge(d)
  /\ UNCHANGED <<initVars, merged, waitTime, mpc, lastCloudConfigETag, serverVer, pc, url, hdr, resp, res,
                 once, configs, config, sent, pollRet>>

CallApplyDefaults ==
  /\ alive
  /\ \E id \in UUIDs : cfg' = ApplyDefaults(cfg, id)
  /\ call' = [op |-> "ApplyDefaults", pre |-> cfg]
  /\ UNCHANGED <<initVars, merged, waitTime, mpc, alive, lastCloudConfigETag, serverVer, pc, url, hdr,
                 resp, res, once, configs, config, sent, pollRet>>

NextMerge == CallUpdateFrom \/ CallApplyDefaults

SpecMerge == InitMerge /\ [][NextMerge]_vars

(***************************************************************************)
(* Init's first steps as a specification of their own.                     *)
(***************************************************************************)
InitConfig ==
  /\ InitCommon
  /\ cfg = EmptyConfig
  /\ mpc = "idle"
  /\ pc = [t \in Tasks |-> "idle"]
  /\ url = [t \in Tasks |-> ""]
  /\ ipc = "start"
  /\ dir \in {"ok", "missing", "error"}
  /\ files \in DirContents
  /\ dir = "missing" => files = NoFiles

\* lines 171-175
InitConfigDir ==
  /\ ipc = "start"
  /\ \E mk \in BOOLEAN :
       LET r == InConfigDir(dir, mk) IN
         /\ dir' = r.dir
         /\ ipc' = IF r.err THEN "failed" ELSE "dirReady"
  /\ UNCHANGED <<merged, cfg, call, mpc, alive, lastCloudConfigETag, serverVer, pc,
                 url, hdr, resp, res, once, configs, config, sent, pollRet,
                 waitTime, files>>

\* line 176
InitMigrate ==
  /\ ipc = "dirReady"
  /\ \E rd \in BOOLEAN, fail \in SUBSET {OldName, OlderName} :
       LET r == copyGoodOldConfig(files, rd, fail) IN
         /\ files' = r.files
         /\ ipc' = IF r.out = "panic" THEN "panic" ELSE "migrated"
         /\ alive' = (r.out # "panic")
  /\ UNCHANGED <<merged, cfg, call, mpc, lastCloudConfigETag, serverVer, pc, url,
                 hdr, resp, res, once, configs, config, sent, pollRet,
                 waitTime, dir>>

\* lines 178-247, m.Init(): the file at the current path is loaded, or,
\* when there is none to load, a first run starts the bootstrap race
InitManager ==
  /\ ipc = "migrated"
  /\ IF files[CurName].kind \in {"yaml", "noclient"}
     THEN /\ ipc' = "loaded"
          /\ UNCHANGED <<cfg, mpc, pc, url>>
     ELSE /\ ipc' = "firstrun"
          /\ cfg' \in FirstRunCfgs
          /\ mpc' = "firstrun"
          /\ pc' = [t \in Tasks |-> IF t \in Racers(NChained) THEN "start" ELSE "idle"]
          /\ url' = [t \in Tasks |-> IF t \in Racers(NChained) THEN cfg'.CloudConfig ELSE ""]
  /\ UNCHANGED <<call, alive, lastCloudConfigETag, serverVer, hdr, resp, res,
                 once, configs, config, sent, pollRet, waitTime, dir, files,
                 merged>>

NextConfig == InitConfigDir \/ InitMigrate \/ InitManager

SpecConfig == InitConfig /\ [][NextConfig]_vars

(***************************************************************************)
(* Properties.                                                             *)
(***************************************************************************)
\* C1: in the bootstrap race at most one payload is ever put on the result
\* channel, the consumer receives exactly that one, and the body of every
\* later successful attempt is discarded.
C1_SingleDelivery ==
  /\ Len(sent) <= 1
  /\ Len(configs) <= 1
  /\ once <=> (sent # <<>>)
  /\ config.kind = "none" => configs = sent
  /\ config.kind # "none" => (sent = <<config>> /\ configs = <<>>)

\* C1 witness: the consumer has its payload while another attempt, which
\* also fetched a body, is about to deliver.
C1_Witness ==
  /\ config.kind # "none"
  /\ \E t \in BootTasks : pc[t] = "fetched" /\ res[t].kind = "body"

\* C2 (as claimed): the payload the consumer receives is a decompressed body,
\* never the nil body of a 304.
C2_PayloadIsBody == config.kind \in {"none", "body"}

\* the four collections updateFrom clears
Collections(c) ==
  <<c.Client.FrontedServers, c.Client.ChainedServers, c.Client.MasqueradeSets,
    c.TrustedCAs>>

\* C3: when the decode of the payload fails, updateFrom returns an error and
\* the fronted servers, chained servers, masquerade sets and trusted CAs are
\* those the configuration held before the call.
C3_FailedMergeRestores ==
  (call.op = "updateFrom" /\ call.doc.kind # "ok" /\ call.out # "panic") =>
    /\ call.out = "err"
    /\ Collections(cfg) = Collections(call.pre)

\* C3 witness: a failed merge on a configuration that held chained servers,
\* the decoder having written a field before it failed.
C3_Witness ==
  /\ call.op = "updateFrom" /\ call.out = "err"
  /\ DOMAIN call.pre.Client.ChainedServers # {}
  /\ cfg.Addr # call.pre.Addr

\* C4 (as claimed): when the decode of the payload fails, every field of the
\* configuration is as before the call.
C4_FailedMergeChangesNothing ==
  (call.op = "updateFrom" /\ call.out = "err") => cfg = call.pre

\* what a successful merge must leave in a replaced collection
Replaced(doc, field, empty) == IF field \in doc.present THEN doc[field] ELSE empty

\* C5: after a successful merge each of the four collections holds exactly
\* the payload's entries, and is empty when the payload omits it.
C5_ReplaceSemantics ==
  (call.op = "updateFrom" /\ call.out = "ok") =>
    /\ cfg.Client.FrontedServers = Replaced(call.doc, "FrontedServers", <<>>)
    /\ cfg.Client.ChainedServers = Replaced(call.doc, "ChainedServers", EmptyMap)
    /\ cfg.Client.MasqueradeSets = Replaced(call.doc, "MasqueradeSets", EmptyMap)
    /\ cfg.TrustedCAs = Replaced(call.doc, "TrustedCAs", <<>>)

\* C5 witness: three chained servers before, one in the payload, one after.
C5_Witness ==
  /\ call.op = "updateFrom" /\ call.out = "ok"
  /\ Cardinality(DOMAIN call.pre.Client.ChainedServers) = 3
  /\ Cardinality(DOMAIN call.doc.ChainedServers) = 1
  /\ Cardinality(DOMAIN cfg.Client.ChainedServers) = 1

\* the cloud list as the decode left it
DecodedCloud(c) ==
  IF "Cloud" \in c.doc.present THEN c.doc.Cloud ELSE c.pre.ProxiedSites.Cloud

\* C6: after a successful merge with a non-empty cloud list, the list is
\* strictly ascending and has the elements of the decoded list.
C6_CloudSortedDeduped ==
  (call.op = "updateFrom" /\ call.out = "ok" /\ Len(DecodedCloud(call)) > 0) =>
    /\ \A i \in 1 .. (Len(cfg.ProxiedSites.Cloud) - 1) :
         StrLess(cfg.ProxiedSites.Cloud[i], cfg.ProxiedSites.Cloud[i + 1])
    /\ Elems(cfg.ProxiedSites.Cloud) = Elems(DecodedCloud(call))

\* C6 witness: [b, a, a] became [a, b].
C6_Witness ==
  /\ call.op = "updateFrom" /\ call.out = "ok"
  /\ DecodedCloud(call) = <<sb, sa, sa>>
  /\ cfg.ProxiedSites.Cloud = <<sa, sb>>

\* task t reads its response in this step
ReadsResponse(t) == pc[t] = "responded" /\ pc'[t] = "fetched"

\* C7 (as claimed): a fetch that returns an error leaves the ETag cache as it
\* was.
C7_ErrorLeavesCache ==
  [][\A t \in Tasks :
       (ReadsResponse(t) /\ res'[t].kind = "err") =>
          lastCloudConfigETag' = lastCloudConfigETag]_vars

\* C8: a fetch answered with 304 returns the absent body without error and
\* leaves every entry of the ETag cache unchanged.
C8_NotModified ==
  [][\A t \in Tasks :
       (ReadsResponse(t) /\ resp[t].status = 304) =>
          /\ res'[t] = NilRes
          /\ lastCloudConfigETag' = lastCloudConfigETag]_vars

\* C8 witness: a fetch returned the absent body and the token is cached.
C8_Witness ==
  \E t \in Tasks :
    pc[t] = "fetched" /\ res[t].kind = "nil" /\ Lookup(url[t]) # NoTok

\* task t builds and sends its request in this step
SendsRequest(t) == pc[t] = "start" /\ pc'[t] = "requested"

\* C9 (as claimed): after a 200 carrying token T the entry is T, and a fetch
\* of a URL that has an entry attaches the entry as its precondition header,
\* whatever the token, the empty one of a response without token included.
C9_AttachesAnyToken ==
  [][\A t \in Chained \cup {Poller} :
       /\ (ReadsResponse(t) /\ resp[t].status = 200) =>
             (url[t] \in DOMAIN lastCloudConfigETag'
              /\ lastCloudConfigETag'[url[t]] = resp[t].tok)
       /\ (SendsRequest(t) /\ url[t] \in DOMAIN lastCloudConfigETag) =>
             hdr'[t] = [set |-> TRUE, val |-> lastCloudConfigETag[url[t]]]]_vars

\* C9 (amended): after a 200 carrying token T the entry is T; a fetch
\* attaches the entry as its precondition header when the entry is not
\* empty, and attaches no precondition header when it is empty or missing.
C9_AttachesNonEmptyToken ==
  [][\A t \in Chained \cup {Poller} :
       /\ (ReadsResponse(t) /\ resp[t].status = 200) =>
             (url[t] \in DOMAIN lastCloudConfigETag'
              /\ lastCloudConfigETag'[url[t]] = resp[t].tok)
       /\ SendsRequest(t) =>
             hdr'[t] = IF url[t] \in DOMAIN lastCloudConfigETag
                          /\ lastCloudConfigETag[url[t]] # NoTok
                       THEN [set |-> TRUE, val |-> lastCloudConfigETag[url[t]]]
                       ELSE [set |-> FALSE, val |-> NoTok]]_vars

\* C9 witness: a request is in flight that carries the token a 200 stored.
C9_Witness ==
  \E t \in Chained \cup {Poller} :
    /\ pc[t] = "requested" /\ hdr[t].set
    /\ url[t] \in DOMAIN lastCloudConfigETag
    /\ hdr[t].val = lastCloudConfigETag[url[t]]

\* C10, the result of a tick: an error with a mutation that does nothing for
\* a failed fetch, no error and a mutation that does nothing for an absent
\* body or a missing URL, no error and the merge of the body otherwise.
C10_ResultOfTick ==
  mpc = "returned" =>
    pollRet = CASE res[Poller].kind = "err" ->
                     [mutate |-> "noop", ver |-> 0, err |-> TRUE]
                [] res[Poller].kind = "body" ->
                     [mutate |-> "merge", ver |-> res[Poller].ver, err |-> FALSE]
                [] OTHER -> [mutate |-> "noop", ver |-> 0, err |-> FALSE]

\* C10, the mutations: one that does nothing leaves the configuration, the
\* other calls updateFrom with the fetched body on the configuration it is
\* handed; without a URL the tick sends no request and leaves the cache.
C10_StepsOfTick ==
  /\ (mpc = "returned" /\ mpc' = "idle") => cfg' = cfg
  /\ (mpc = "returned" /\ mpc' = "merged") =>
        /\ call'.op = "updateFrom" /\ call'.pre = cfg
        /\ call'.doc = DocOf(res[Poller].ver)
        /\ \E W \in Writes(call'.doc) :
             cfg' = updateFrom(cfg, call'.doc, W).cfg
  /\ (mpc = "idle" /\ mpc' = "returned") =>
        /\ cfg.CloudConfig = ""
        /\ UNCHANGED <<lastCloudConfigETag, pc, hdr, resp, res>>
  /\ (mpc = "idle" /\ cfg.CloudConfig = "") => mpc' \in {"idle", "returned"}

\* C10: pollWithHttpClient maps the outcome of its fetch to (mutate, err) as
\* stated, the mutation merges into the configuration live when it is
\* applied, and a configuration without URL is not fetched for.
C10_PollTick == []C10_ResultOfTick /\ [][C10_StepsOfTick]_vars

\* C10 witness: the merge closure was applied to a configuration that Update
\* had changed.
C10_Witness ==
  /\ mpc = "merged" /\ call.op = "updateFrom" /\ call.out = "ok"
  /\ call.pre.Addr = "a9"

\* C11: the wait time a poll tick returns is half the poll interval plus a
\* jitter below the interval, so for the interval of one minute at least 30
\* seconds and less than 90 (in milliseconds here), and it is returned
\* whether the fetch succeeded, found nothing new, failed or was skipped.
C11_WaitWithinBounds ==
  mpc = "returned" =>
    /\ \E r \in Int63n(CloudConfigPollInterval) :
         waitTime = (CloudConfigPollInterval \div 2) + r
    /\ waitTime >= 30000 /\ waitTime < 90000

\* C11 witness: a tick whose fetch failed returned the longest wait of the
\* range.
C11_Witness ==
  mpc = "returned" /\ pollRet.err /\ waitTime = 89999

\* C12: ApplyDefaults applied to a configuration it has already been applied
\* to changes nothing, whatever identifier uuid.New() would hand out.
C12_ApplyDefaultsIdempotent ==
  call.op = "ApplyDefaults" =>
    \A id \in UUIDs : ApplyDefaults(cfg, id) = cfg

\* C12 witness: ApplyDefaults has run on the hand-written configuration
\* (identifier set, flags off, servers partly tuned) and changed it.
C12_Witness ==
  /\ call.op = "ApplyDefaults" /\ call.pre = CfgTuned /\ cfg # call.pre
  /\ cfg.InstanceId = "id0" /\ cfg.AutoReport = BoolPtr(FALSE)

\* the client defaults are in place in configuration c
ClientDefaultsHold(c) ==
  /\ ~c.Client.isNil
  /\ DOMAIN c.Client.MasqueradeSets # {}
  /\ c.Client.nilFields = {}
  /\ \A i \in DOMAIN c.Client.FrontedServers :
       LET srv == c.Client.FrontedServers[i] IN
         srv.QOS # 0 /\ srv.Weight # 0 /\ srv.RedialAttempts # 0

\* C13: after ApplyDefaults a configuration whose role is client, the role
\* having been empty and the client section absent included, has a masquerade
\* set, non-nil fronted and chained collections, and nonzero QOS, weight and
\* redial count on every fronted server.
C13_ClientDefaults ==
  (call.op = "ApplyDefaults" /\ cfg.Role = "client") => ClientDefaultsHold(cfg)

\* the first run's consumer has the well-formed payload DocFull
FirstRunGotFull ==
  /\ url[Poller] = "" /\ config.kind = "body" /\ DocOf(config.ver) = DocFull

\* C14: a first run from the empty configuration whose race delivers the
\* well-formed payload (one trusted CA, two fronted servers without QOS and
\* weight) merges it without failure, and the configuration published after
\* the defaults has role client, QOS 5 and weight 100 on both servers and
\* exactly the payload's trusted CA.
C14_FirstRunEndToEnd ==
  [][/\ (mpc = "firstrun" /\ mpc' # "firstrun" /\ FirstRunGotFull') =>
          call'.out = "ok"
     /\ (mpc = "merged" /\ mpc' = "idle" /\ FirstRunGotFull) =>
          /\ cfg'.Role = "client"
          /\ Len(cfg'.Client.FrontedServers) = 2
          /\ \A i \in DOMAIN cfg'.Client.FrontedServers :
               /\ cfg'.Client.FrontedServers[i].QOS = 5
               /\ cfg'.Client.FrontedServers[i].Weight = 100
          /\ cfg'.TrustedCAs = DocFull.TrustedCAs]_vars

\* an attempt's fetch has returned without error and the attempt is about to
\* deliver
SomeAttemptSucceeded ==
  \E t \in BootTasks : pc[t] = "fetched" /\ res[t].kind \in {"nil", "body"}

\* the consumer has received from the channel
ConsumerProceeded == config.kind # "none"

\* C15: the consumer proceeds only after a payload was delivered (so never
\* when every attempt fails), and once an attempt has succeeded the consumer
\* eventually proceeds.
C15_ConsumerProgress ==
  /\ [](ConsumerProceeded => Len(sent) >= 1)
  /\ (SomeAttemptSucceeded ~> ConsumerProceeded)

\* C16: a successful merge leaves the configuration it was handed as it was.
C16_MergeLeavesReceiver ==
  (call.op = "updateFrom" /\ call.out = "ok") => cfg = call.pre

\* C17: no two fetch tasks are at an access to the ETag cache, one of them
\* a write, at the same time.
C17_CacheAccessesExclusive == ~Racing

\* C18, delivery never blocks: an attempt whose fetch has returned can take
\* its last step, also after a winner was chosen and after the consumer has
\* read.
C18_NeverBlocks ==
  \A t \in BootTasks : (alive /\ pc[t] = "fetched") => ENABLED Deliver(t)

\* C18, the loser: an attempt ending after the winner was chosen leaves the
\* channel, the consumer's payload and what was ever sent as they are.
C18_LoserDropped ==
  \A t \in BootTasks :
    (pc[t] = "fetched" /\ pc'[t] = "done" /\ once) =>
       UNCHANGED <<configs, config, sent>>

\* C18: every bootstrap attempt whose fetch returns ends without blocking on
\* the channel, and a loser's body is dropped without touching the winner's.
C18_AttemptsTerminate == []C18_NeverBlocks /\ [][C18_LoserDropped]_vars

\* C18 witness: the consumer has read the winner's payload and another
\* attempt, holding a body, has since ended.
C18_Witness ==
  /\ ConsumerProceeded /\ Len(sent) = 1
  /\ \E t \in BootTasks : pc[t] = "fetched" /\ res[t].kind = "body"
  /\ \E t \in BootTasks : pc[t] = "done"

\* C19: the migration puts a file at the current path only when there was
\* none, the file it puts there is an older lantern*.yaml with one to nine
\* chained servers, and a file already at the current path is not replaced.
C19_MigrationKeepsCurrent ==
  [][(ipc = "dirReady" /\ ipc' = "migrated") =>
       /\ exists(files[CurName]) => files'[CurName] = files[CurName]
       /\ files'[CurName] # files[CurName] =>
            \E n \in Names \ {CurName} :
              /\ HasPrefix(n, "lantern") /\ HasSuffix(n, ".yaml")
              /\ files[n].kind = "yaml" /\ files[n].nc \in 1 .. 9
              /\ files'[CurName] = files[n]]_vars

\* C20: when os.Stat of the configuration directory fails, or the directory
\* cannot be created, Init returns the error: it gets no further than
\* InConfigDir, so the migration and the bootstrap race do not start.
C20_DirFailureFailsInit ==
  dir # "ok" => (ipc \in {"start", "failed"} /\ mpc # "firstrun")

\* only poll ticks have run: no bootstrap attempt was ever started
OnlyPollTicks == \A t \in BootTasks : pc[t] = "idle"

\* C21: between poll ticks the token the ETag cache holds for the
\* configuration's URL is that of a payload updateFrom has merged, and the
\* poller is answered 304 only for such a payload: one that was fetched but
\* could not be decompressed or merged is fetched again.
C21_CacheNotAhead ==
  OnlyPollTicks =>
    /\ (mpc = "idle" /\ cfg.CloudConfig \in DOMAIN lastCloudConfigETag
          /\ lastCloudConfigETag[cfg.CloudConfig] # NoTok) =>
         lastCloudConfigETag[cfg.CloudConfig] \in merged
    /\ (pc[Poller] = "responded" /\ resp[Poller].status = 304) =>
         hdr[Poller].val \in merged

====
